---- MODULE Spec2Model ----
(***************************************************************************)
(* Model of the vehicle ("Auto") service: AutoWriteService (create,        *)
(* addFile, update, delete), AutoService (findById, findFileByAutoId) and  *)
(* the REST controller's DTO conversions, over a relational store reached  *)
(* through Prisma.  Every request is a task; a task is suspended at every  *)
(* awaited store call, so every store call is one atomic step and steps of *)
(* different tasks interleave.                                             *)
(***************************************************************************)
EXTENDS Integers, Sequences, FiniteSets, TLC

\* ------------------------------------------------------------------ bounds
\* Largest id the store's autoincrement hands out to a vehicle.
MaxId == 2
\* Largest version a record is driven to (update is not started beyond it).
MaxVersion == 2
HighVersion == 998
VersionLimit == 1002

\* The request tasks that may be in flight at the same time.
Procs == {"t1", "t2"}

\* ------------------------------------------------------- JavaScript values
Undefined == [tag |-> "undefined"]
Null == [tag |-> "null"]
NaN == [tag |-> "NaN"]
Some(v) == [tag |-> "val", val |-> v]

\* The operator ??: the right operand when the left is null or undefined.
Coalesce(x, d) == IF x = Undefined \/ x = Null THEN d ELSE x

\* ------------------------------------------------------- version strings
\* A string is a sequence of one-character strings.
DQ == "\""
Digits == {"0", "1", "2", "3", "4", "5", "6", "7", "8", "9"}
DigitVal(c) ==
    CASE c = "0" -> 0 [] c = "1" -> 1 [] c = "2" -> 2 [] c = "3" -> 3
      [] c = "4" -> 4 [] c = "5" -> 5 [] c = "6" -> 6 [] c = "7" -> 7
      [] c = "8" -> 8 [] c = "9" -> 9

\* /^"\d{1,3}"/u tested against s: anchored at the start only.
VERSION_PATTERN_mut(s) ==
    \E n \in 1..4 :
        /\ Len(s) >= n + 2
        /\ s[1] = DQ
        /\ \A i \in 2..(n + 1) : s[i] \in Digits
        /\ s[n + 2] = DQ
VERSION_PATTERN(s) ==
    \E n \in 1..3 :
        /\ Len(s) >= n + 2
        /\ s[1] = DQ
        /\ \A i \in 2..(n + 1) : s[i] \in Digits
        /\ s[n + 2] = DQ

\* String.prototype.slice(1, -1): without the first and the last character.
Slice1(s) == IF Len(s) <= 2 THEN <<>> ELSE SubSeq(s, 2, Len(s) - 1)

\* The value of the longest prefix of digits of s, read in base 10.
RECURSIVE DigitPrefixVal(_, _)
DigitPrefixVal(s, acc) ==
    IF s = <<>> \/ Head(s) \notin Digits THEN acc
    ELSE DigitPrefixVal(Tail(s), 10 * acc + DigitVal(Head(s)))

RECURSIVE SkipBlanks(_)
SkipBlanks(s) == IF s # <<>> /\ Head(s) = " " THEN SkipBlanks(Tail(s)) ELSE s

\* Number.parseInt(s, 10): blanks, an optional sign, then digits as far as they
\* go; NaN when no digit follows.
ParseInt(s) ==
    LET t == SkipBlanks(s)
        neg == t # <<>> /\ Head(t) = "-"
        u == IF t # <<>> /\ Head(t) \in {"-", "+"} THEN Tail(t) ELSE t
    IN  IF u = <<>> \/ Head(u) \notin Digits THEN NaN
        ELSE Some(IF neg THEN 0 - DigitPrefixVal(u, 0) ELSE DigitPrefixVal(u, 0))

\* The strings the whole-string pattern "<1-3 digits>" describes.
WellFormed(s) ==
    /\ Len(s) \in 3..5
    /\ s[1] = DQ
    /\ s[Len(s)] = DQ
    /\ \A i \in 2..(Len(s) - 1) : s[i] \in Digits

\* ------------------------------------------------------- decimal numbers
\* An arbitrary-precision decimal (BigNumber, Prisma Decimal): the significant
\* digits, without leading or trailing zeros, times 10^exp.
Dec(coef, exp) == [coef |-> coef, exp |-> exp]

RECURSIVE StripZeros(_)
StripZeros(d) ==
    IF Len(d.coef) > 1 /\ d.coef[Len(d.coef)] = 0
    THEN StripZeros(Dec(SubSeq(d.coef, 1, Len(d.coef) - 1), d.exp + 1))
    ELSE d

\* Significant decimal digits every JavaScript number keeps (IEEE 754 double),
\* and the most its shortest decimal form can have.
DoubleExactDigits == 15
DoubleMaxDigits == 17

\* BigNumber.prototype.toNumber(): the nearest double, read back as the decimal
\* the store receives.  Up to DoubleExactDigits digits survive unchanged; of a
\* longer coefficient at most DoubleMaxDigits digits are left.
ToNumber(d) ==
    IF Len(d.coef) <= DoubleExactDigits THEN d
    ELSE StripZeros(Dec(SubSeq(d.coef, 1, DoubleMaxDigits),
                        d.exp + (Len(d.coef) - DoubleMaxDigits)))

\* ------------------------------------------------------------ request data
FinA == "HUN12345678923451"
FinB == "HYU12398765412TUC"

\* 12999.99, 0.05, 329.99 and 0.100000000000000001 (18 significant digits).
Preis12999_99 == Dec(<<1, 2, 9, 9, 9, 9, 9>>, -2)
Rabatt0_05 == Dec(<<5>>, -2)
Preis329_99 == Dec(<<3, 2, 9, 9, 9>>, -2)
Preis11999 == Dec(<<1, 1, 9, 9, 9>>, 0)
PreisLong == Dec(<<1, 0, 0, 0, 0, 0, 0, 0, 0, 0, 0, 0, 0, 0, 0, 0, 0, 1>>, -18)

\* Bodies of POST /rest (AutoDTO): one with every field, one with only the
\* required fields and a price of 18 significant digits.
DtoNeuesAuto ==
    [fin |-> FinA, rating |-> 3, art |-> Some("SUV"), preis |-> Preis12999_99,
     rabatt |-> Some(Rabatt0_05), verfuegbar |-> Some(TRUE),
     baujahr |-> Some("2023-01-20"), homepage |-> Some("https://www.mercedes.de"),
     schlagwoerter |-> Some(<<"ALLRAD", "HYBRID">>),
     fahrzeugschein |-> [identifikationsNummer |-> "KA-MC3456",
                         erstzulassung |-> Some("2023-03-15"),
                         gueltigBis |-> "2028-03-15"],
     ausstattungen |-> Some(<<[bezeichnung |-> "Navigation",
                               beschreibung |-> "Navigationssystem",
                               preis |-> Preis329_99]>>)]
DtoMinimal ==
    [fin |-> FinB, rating |-> 1, art |-> Undefined, preis |-> PreisLong,
     rabatt |-> Undefined, verfuegbar |-> Undefined,
     baujahr |-> Undefined, homepage |-> Undefined,
     schlagwoerter |-> Undefined,
     fahrzeugschein |-> [identifikationsNummer |-> "M-MC3456",
                         erstzulassung |-> Undefined,
                         gueltigBis |-> "2028-03-15"],
     ausstattungen |-> Undefined]
CreateDTOs == {DtoNeuesAuto, DtoMinimal}

\* Bodies of PUT /rest/:id (AutoDtoOhneRef).  The body carries the FIN of
\* DtoNeuesAuto, so that an update can name a FIN another record has.
DtoGeaendert ==
    [fin |-> FinA, rating |-> 2, art |-> Some("KOMBI"), preis |-> Preis11999,
     rabatt |-> Undefined, verfuegbar |-> Some(TRUE),
     baujahr |-> Undefined, homepage |-> Undefined,
     schlagwoerter |-> Some(<<"FAMILIE">>)]
UpdateDTOs == {DtoGeaendert}

\* If-Match values: well-formed tokens, and strings the whole-string pattern
\* excludes (trailing characters, a sign, four digits, no quotes, empty).
VersionStrs ==
    { <<DQ, "0", DQ>>, <<DQ, "1", DQ>>,
      <<DQ, "1", DQ, "x">>,
      <<DQ, "-", "1", DQ>>, <<DQ, "1", "2", "3", "4", DQ>>,
      <<"1">>, <<>> }

\* Uploaded files: name and bytes.
PngBytes == "89504E47"
TxtBytes == "68656C6C"
Uploads == { [filename |-> "bild.png", data |-> PngBytes],
             [filename |-> "text.txt", data |-> TxtBytes] }

\* fileTypeFromBuffer(data)?.mime: sniffed from the bytes, undefined when the
\* bytes match no known signature.
FileTypeMime(data) == IF data = PngBytes THEN Some("image/png") ELSE Undefined

\* ------------------------------------------------- controller conversions
AusstattungInput_mut(a) ==
    [bezeichnung |-> a.bezeichnung, beschreibung |-> a.bezeichnung, preis |-> a.preis]
AusstattungInput(a) ==
    [bezeichnung |-> a.bezeichnung, beschreibung |-> a.beschreibung, preis |-> a.preis]

MapAusstattungen(as) ==
    IF as = Undefined THEN Undefined
    ELSE Some([i \in 1..Len(as.val) |-> AusstattungInput(as.val[i])])

\* AutoWriteController.#autoDtoToAutoCreateInput
autoDtoToAutoCreateInput(autoDTO) ==
    [version |-> 0,
     fin |-> autoDTO.fin,
     rating |-> autoDTO.rating,
     art |-> Coalesce(autoDTO.art, Null),
     preis |-> ToNumber(autoDTO.preis),
     rabatt |-> IF autoDTO.rabatt = Undefined THEN Some(Dec(<<0>>, 0))
                ELSE Some(ToNumber(autoDTO.rabatt.val)),
     verfuegbar |-> Coalesce(autoDTO.verfuegbar, Some(FALSE)),
     baujahr |-> Coalesce(autoDTO.baujahr, Null),
     homepage |-> Coalesce(autoDTO.homepage, Null),
     schlagwoerter |-> Coalesce(autoDTO.schlagwoerter, Some(<<>>)),
     fahrzeugschein |->
        [identifikationsNummer |-> autoDTO.fahrzeugschein.identifikationsNummer,
         erstzulassung |-> Coalesce(autoDTO.fahrzeugschein.erstzulassung, Null),
         gueltigBis |-> autoDTO.fahrzeugschein.gueltigBis],
     ausstattungen |-> Coalesce(MapAusstattungen(autoDTO.ausstattungen), Some(<<>>))]

\* A column of the data of an update: a value to set, or an amount to add.
SetTo(v) == [tag |-> "set", val |-> v]
Increment(n) == [tag |-> "increment", by |-> n]

\* AutoWriteController.#autoDtoToAutoUpdate
autoDtoToAutoUpdate(autoDTO) ==
    [version |-> SetTo(0),
     fin |-> autoDTO.fin,
     rating |-> autoDTO.rating,
     art |-> Coalesce(autoDTO.art, Null),
     preis |-> ToNumber(autoDTO.preis),
     rabatt |-> IF autoDTO.rabatt = Undefined THEN Some(Dec(<<0>>, 0))
                ELSE Some(ToNumber(autoDTO.rabatt.val)),
     verfuegbar |-> Coalesce(autoDTO.verfuegbar, Some(FALSE)),
     baujahr |-> Coalesce(autoDTO.baujahr, Null),
     homepage |-> Coalesce(autoDTO.homepage, Null),
     schlagwoerter |-> Coalesce(autoDTO.schlagwoerter, Some(<<>>))]

\* ------------------------------------------------------------------- state
VARIABLES
    autos,        \* table auto with its fahrzeugschein and ausstattungen: id -> row
    files,        \* table auto_file: its rows in the order of their insertion
    nextId,       \* the next id of table auto (autoincrement)
    pc,           \* per task: the await it is suspended at
    local,        \* per task: the arguments and local variables of its call
    result,       \* per task: what its call returned or threw
    created,      \* history: id -> the DTO a not yet updated record was created from
    updates,      \* history: id -> the number of updates that have written the record
    lastFile      \* history: vehicle id -> the file row addFile stored last for it

vars == <<autos, files, nextId, pc, local, result, created, updates, lastFile>>

NoLocal == [op |-> "none"]
NoResult == [outcome |-> "none"]
Ok(v) == [outcome |-> "ok", value |-> v]
Thrown(e, v) == [outcome |-> e, value |-> v]

\* Ids a request may name: those the store can hand out and one it never does.
IdArgs == 1..(MaxId + 1)

Init ==
    /\ autos = <<>>
    /\ files = <<>>
    /\ nextId = 1
    /\ pc = [p \in Procs |-> "idle"]
    /\ local = [p \in Procs |-> NoLocal]
    /\ result = [p \in Procs |-> NoResult]
    /\ created = <<>>
    /\ updates = <<>>
    /\ lastFile = <<>>

\* ------------------------------------------------------------ store calls
Exists(id) == id \in DOMAIN autos

\* prisma.auto.count({ where: { fin } })
CountFin_mut(fin) == 0
CountFin(fin) == Cardinality({i \in DOMAIN autos : autos[i].fin = fin})

\* tx.auto.create({ data, include }): the row with its generated id.
NewRow(id, auto) ==
    [id |-> id, version |-> auto.version, fin |-> auto.fin, rating |-> auto.rating,
     art |-> auto.art, preis |-> auto.preis, rabatt |-> auto.rabatt,
     verfuegbar |-> auto.verfuegbar, baujahr |-> auto.baujahr,
     homepage |-> auto.homepage, schlagwoerter |-> auto.schlagwoerter,
     fahrzeugschein |-> auto.fahrzeugschein,
     ausstattungen |-> auto.ausstattungen.val]

\* auto.version = { increment: 1 }
WithIncrement_mut(auto) == auto
WithIncrement(auto) == [auto EXCEPT !.version = Increment(1)]

\* tx.auto.update({ data, where: { id } }): the columns are set from data; a
\* column given as an increment is counted up in the store, atomically.
UpdatedRow(row, data) ==
    [row EXCEPT !.version = IF data.version.tag = "increment"
                            THEN row.version + data.version.by
                            ELSE data.version.val,
                !.fin = data.fin, !.rating = data.rating, !.art = data.art,
                !.preis = data.preis, !.rabatt = data.rabatt,
                !.verfuegbar = data.verfuegbar, !.baujahr = data.baujahr,
                !.homepage = data.homepage, !.schlagwoerter = data.schlagwoerter]

\* A table without the row of key k.
Without_mut(f, k) == f
Without(f, k) == [i \in DOMAIN f \ {k} |-> f[i]]

\* The store removes the rows that depend on a deleted vehicle.
CascadeFiles(fs, id) == SelectSeq(fs, LAMBDA f : f.autoId # id)

\* findUnique with include: the equipment is loaded only when asked for.
Included(row, mitAusstattungen) ==
    IF mitAusstattungen THEN row
    ELSE [k \in DOMAIN row \ {"ausstattungen"} |-> row[k]]

\* auto.schlagwoerter ??= []
NormSchlagwoerter(row) ==
    [row EXCEPT !.schlagwoerter = Coalesce(row.schlagwoerter, Some(<<>>))]

\* version < autoDb.version, false when the parsed version is NaN.
Outdated_mut(version, versionDb) == version # NaN /\ version.val <= versionDb
Outdated_never(version, versionDb) == FALSE
Outdated(version, versionDb) == version # NaN /\ version.val < versionDb

\* ------------------------------------------------------------------ tasks
\* The caller's context of a call: none for a direct call of the service, the
\* endpoint and the token of the request for a call made by a controller.
NoContext == <<>>

Finish(p, r) ==
    /\ pc' = [pc EXCEPT ![p] = "done"]
    /\ result' = [result EXCEPT ![p] = r]

Goto(p, label) ==
    /\ pc' = [pc EXCEPT ![p] = label]
    /\ UNCHANGED result

\* The response is sent and the task takes the next request.
Return(p) ==
    /\ pc[p] = "done"
    /\ pc' = [pc EXCEPT ![p] = "idle"]
    /\ local' = [local EXCEPT ![p] = NoLocal]
    /\ result' = [result EXCEPT ![p] = NoResult]
    /\ UNCHANGED <<autos, files, nextId, created, updates, lastFile>>

\* create, up to the count of #validateCreate, for the bodies given.
CreateRequest(p, dtos, ctx) ==
    /\ pc[p] = "idle"
    /\ nextId <= MaxId
    /\ \E dto \in dtos :
        LET auto == autoDtoToAutoCreateInput(dto) IN
        /\ local' = [local EXCEPT ![p] = ctx @@ [op |-> "create", dto |-> dto]]
        /\ IF CountFin(auto.fin) > 0
           THEN Finish(p, Thrown("FinExists", auto.fin))
           ELSE Goto(p, "create_insert")
    /\ UNCHANGED <<autos, files, nextId, created, updates, lastFile>>

CreateCall(p, dtos) == CreateRequest(p, dtos, NoContext)

CreateValidate(p) == CreateCall(p, CreateDTOs)

\* create: the transaction with tx.auto.create.
CreateInsert_checked(p) ==
    /\ pc[p] = "create_insert"
    /\ nextId <= MaxId
    /\ IF CountFin(local[p].dto.fin) > 0
       THEN /\ Finish(p, Thrown("FinExists", local[p].dto.fin))
            /\ UNCHANGED <<autos, nextId, created, updates>>
       ELSE /\ autos' = autos @@ (nextId :> NewRow(nextId, autoDtoToAutoCreateInput(local[p].dto)))
            /\ nextId' = nextId + 1
            /\ created' = created @@ (nextId :> local[p].dto)
            /\ updates' = updates @@ (nextId :> 0)
            /\ Finish(p, Ok(nextId))
    /\ UNCHANGED <<files, local, lastFile>>
CreateInsert(p) ==
    /\ pc[p] = "create_insert"
    /\ nextId <= MaxId
    /\ autos' = autos @@ (nextId :> NewRow(nextId, autoDtoToAutoCreateInput(local[p].dto)))
    /\ nextId' = nextId + 1
    /\ created' = created @@ (nextId :> local[p].dto)
    /\ updates' = updates @@ (nextId :> 0)
    /\ Finish(p, Ok(nextId))
    /\ UNCHANGED <<files, local, lastFile>>

\* The versions the model lets an update count up: those below MaxVersion,
\* and those from HighVersion to below VersionLimit, around the largest number
\* a version string can carry.
Writable(version) ==
    version < MaxVersion \/ (version >= HighVersion /\ version < VersionLimit)

\* update, up to the findById of #validateUpdate, for the If-Match values given.
UpdateRequest(p, dtos, versionStrs, ctx) ==
    /\ pc[p] = "idle"
    /\ \E id \in IdArgs, dto \in dtos, versionStr \in versionStrs :
        /\ local' = [local EXCEPT ![p] = ctx @@
                [op |-> "update", id |-> id, dto |-> dto, versionStr |-> versionStr,
                 autoDb |-> IF VERSION_PATTERN(versionStr) /\ Exists(id)
                            THEN [version |-> autos[id].version] ELSE Undefined]]
        /\ IF ~VERSION_PATTERN(versionStr)
           THEN Finish(p, Thrown("VersionInvalid", versionStr))
           ELSE LET version == ParseInt(Slice1(versionStr)) IN
                IF ~Exists(id)
                THEN Finish(p, Thrown("NotFound", id))
                ELSE IF Outdated(version, autos[id].version)
                THEN Finish(p, Thrown("VersionOutdated", version))
                ELSE Writable(autos[id].version) /\ Goto(p, "update_write")
    /\ UNCHANGED <<autos, files, nextId, created, updates, lastFile>>

UpdateCall(p, versionStrs) == UpdateRequest(p, UpdateDTOs, versionStrs, NoContext)

UpdateValidate(p) == UpdateCall(p, VersionStrs)

\* update: the transaction with tx.auto.update, which fails when the row is gone.
UpdateWrite(p) ==
    /\ pc[p] = "update_write"
    /\ LET id == local[p].id IN
       IF Exists(id)
       THEN /\ autos' = [autos EXCEPT ![id] =
                    UpdatedRow(autos[id], WithIncrement(autoDtoToAutoUpdate(local[p].dto)))]
            /\ updates' = [updates EXCEPT ![id] = updates[id] + 1]
            /\ created' = [created EXCEPT ![id] = Null]
            /\ Finish(p, Ok(autos'[id].version))
       ELSE /\ Finish(p, Thrown("StoreError", "RecordNotFound"))
            /\ UNCHANGED <<autos, updates, created>>
    /\ UNCHANGED <<files, nextId, local, lastFile>>

\* delete, up to its findUnique.
DeleteRequest(p, ctx) ==
    /\ pc[p] = "idle"
    /\ \E id \in IdArgs :
        /\ local' = [local EXCEPT ![p] = ctx @@ [op |-> "delete", id |-> id]]
        /\ IF ~Exists(id) THEN Finish(p, Ok(FALSE)) ELSE Goto(p, "delete_delete")
    /\ UNCHANGED <<autos, files, nextId, created, updates, lastFile>>

DeleteFind(p) == DeleteRequest(p, NoContext)

\* delete: the transaction with tx.auto.delete, which fails when the row is gone.
DeleteDelete(p) ==
    /\ pc[p] = "delete_delete"
    /\ LET id == local[p].id IN
       IF Exists(id)
       THEN /\ autos' = Without(autos, id)
            /\ files' = CascadeFiles(files, id)
            /\ created' = Without(created, id)
            /\ updates' = Without(updates, id)
            /\ lastFile' = Without(lastFile, id)
            /\ Finish(p, Ok(TRUE))
       ELSE /\ Finish(p, Thrown("StoreError", "RecordNotFound"))
            /\ UNCHANGED <<autos, files, created, updates, lastFile>>
    /\ UNCHANGED <<nextId, local>>

\* tx.auto.findUnique({ where: { id } }) in addFile is not awaited: what the
\* code compares with null is the pending query, for every id.
PendingQuery(id) == [tag |-> "promise", id |-> id]

\* tx.autoFile.deleteMany({ where: { autoId } })
DeleteManyFiles_mut(fs, autoId) == fs
DeleteManyFiles(fs, autoId) == SelectSeq(fs, LAMBDA f : f.autoId # autoId)

\* The row of tx.autoFile.create({ data: autoFile }).
NewFile(autoId, upload) ==
    [filename |-> upload.filename, data |-> upload.data,
     mimetype |-> Coalesce(FileTypeMime(upload.data), Null), autoId |-> autoId]

\* addFile: one transaction; auto_file.auto_id references auto.id, so the
\* create for a missing vehicle fails and the transaction is rolled back.
AddFileRequest(p, ctx) ==
    /\ pc[p] = "idle"
    /\ \E autoId \in IdArgs, upload \in Uploads :
        LET auto == PendingQuery(autoId)
            autoFile == NewFile(autoId, upload)
        IN
        /\ local' = [local EXCEPT ![p] = ctx @@
                [op |-> "addFile", id |-> autoId, upload |-> upload,
                 deleted |-> IF Exists(autoId)
                             THEN Len(files) - Len(DeleteManyFiles(files, autoId))
                             ELSE 0]]
        /\ IF auto = Null
           THEN /\ Finish(p, Thrown("NotFound", autoId))
                /\ UNCHANGED <<files, lastFile>>
           ELSE IF ~Exists(autoId)
           THEN /\ Finish(p, Thrown("StoreError", "ForeignKey"))
                /\ UNCHANGED <<files, lastFile>>
           ELSE /\ files' = Append(DeleteManyFiles(files, autoId), autoFile)
                /\ lastFile' = [i \in DOMAIN lastFile \cup {autoId} |->
                                   IF i = autoId THEN autoFile ELSE lastFile[i]]
                /\ Finish(p, Ok(autoFile))
    /\ UNCHANGED <<autos, nextId, created, updates>>

AddFile(p) == AddFileRequest(p, NoContext)

\* findById: one findUnique.
FindById(p) ==
    /\ pc[p] = "idle"
    /\ \E id \in IdArgs, mitAusstattungen \in BOOLEAN :
        /\ local' = [local EXCEPT ![p] =
                [op |-> "findById", id |-> id, mitAusstattungen |-> mitAusstattungen]]
        /\ IF ~Exists(id)
           THEN Finish(p, Thrown("NotFound", id))
           ELSE Finish(p, Ok(NormSchlagwoerter(Included(autos[id], mitAusstattungen))))
    /\ UNCHANGED <<autos, files, nextId, created, updates, lastFile>>

\* findFileByAutoId, up to the findUnique of the vehicle.
FindFileAuto(p) ==
    /\ pc[p] = "idle"
    /\ \E id \in IdArgs :
        /\ local' = [local EXCEPT ![p] = [op |-> "findFileByAutoId", id |-> id]]
        /\ IF ~Exists(id) THEN Finish(p, Thrown("NotFound", id)) ELSE Goto(p, "file_read")
    /\ UNCHANGED <<autos, files, nextId, created, updates, lastFile>>

\* findFileByAutoId: the findUnique of the file by its vehicle id.
FindFileFile(p) ==
    /\ pc[p] = "file_read"
    /\ LET found == SelectSeq(files, LAMBDA f : f.autoId = local[p].id) IN
       IF found = <<>>
       THEN Finish(p, Thrown("NotFound", "Keine Datei"))
       ELSE \E i \in DOMAIN found : Finish(p, Ok(found[i]))
    /\ UNCHANGED <<autos, files, nextId, local, created, updates, lastFile>>

\* Requests are handled concurrently: any task may take its next step.
Next ==
    \E p \in Procs :
        \/ CreateValidate(p)
        \/ CreateInsert(p)
        \/ UpdateValidate(p)
        \/ UpdateWrite(p)
        \/ DeleteFind(p)
        \/ DeleteDelete(p)
        \/ AddFile(p)
        \/ FindById(p)
        \/ FindFileAuto(p)
        \/ FindFileFile(p)
        \/ Return(p)

Spec == Init /\ [][Next]_vars

\* No other call is under way.
Alone(p) == \A q \in Procs \ {p} : pc[q] = "idle"

\* Calls that do not overlap: a task steps only while no other call is under way.
SeqNext ==
    \E p \in Procs :
        \/ Alone(p) /\ CreateValidate(p)
        \/ Alone(p) /\ CreateInsert(p)
        \/ Alone(p) /\ UpdateValidate(p)
        \/ Alone(p) /\ UpdateWrite(p)
        \/ Alone(p) /\ DeleteFind(p)
        \/ Alone(p) /\ DeleteDelete(p)
        \/ Alone(p) /\ AddFile(p)
        \/ Alone(p) /\ FindById(p)
        \/ Alone(p) /\ FindFileAuto(p)
        \/ Alone(p) /\ FindFileFile(p)
        \/ Alone(p) /\ Return(p)

SeqSpec == Init /\ [][SeqNext]_vars

\* Concurrent writes of vehicles, the updates with well-formed If-Match values.
WriteNext ==
    \E p \in Procs :
        \/ CreateValidate(p)
        \/ CreateInsert(p)
        \/ UpdateCall(p, {s \in VersionStrs : WellFormed(s)})
        \/ UpdateWrite(p)
        \/ DeleteFind(p)
        \/ DeleteDelete(p)
        \/ Return(p)

WriteSpec == Init /\ [][WriteNext]_vars

\* ------------------------------------------------------------------ search
\* The characters of a string.
Chars(s) == [i \in 1..Len(s) |-> SubSeq(s, i, i)]

UpperLetters == Chars("ABCDEFGHIJKLMNOPQRSTUVWXYZ")
LowerLetters == Chars("abcdefghijklmnopqrstuvwxyz")
LowerChar(c) ==
    IF \E i \in DOMAIN UpperLetters : UpperLetters[i] = c
    THEN LowerLetters[CHOOSE i \in DOMAIN UpperLetters : UpperLetters[i] = c]
    ELSE c
\* String.prototype.toLowerCase(), on the characters of the string.
ToLowerCase(cs) == [i \in 1..Len(cs) |-> LowerChar(cs[i])]

\* value.toLowerCase() === 'true'
IsTrue_mut(value) == Chars(value) = Chars("true")
IsTrue(value) == ToLowerCase(Chars(value)) = Chars("true")

\* The longest prefix of digits of a sequence of characters.
RECURSIVE DigitPrefix(_)
DigitPrefix(cs) ==
    IF cs = <<>> \/ Head(cs) \notin Digits THEN <<>>
    ELSE <<DigitVal(Head(cs))>> \o DigitPrefix(Tail(cs))

RECURSIVE StripLeadingZeros(_)
StripLeadingZeros(ds) ==
    IF Len(ds) > 1 /\ Head(ds) = 0 THEN StripLeadingZeros(Tail(ds)) ELSE ds

\* A decimal below zero.
Negative(d) == [coef |-> d.coef, exp |-> d.exp, sign |-> -1]
Sign(d) == IF "sign" \in DOMAIN d THEN d.sign ELSE 1

\* Number.parseFloat(s): blanks, an optional sign, digits, an optional point
\* and digits (an exponent is not read); NaN when no digit is found.
ParseFloat(cs) ==
    LET t == SkipBlanks(cs)
        neg == t # <<>> /\ Head(t) = "-"
        u == IF t # <<>> /\ Head(t) \in {"-", "+"} THEN Tail(t) ELSE t
        int == DigitPrefix(u)
        rest == SubSeq(u, Len(int) + 1, Len(u))
        frac == IF rest # <<>> /\ Head(rest) = "." THEN DigitPrefix(Tail(rest)) ELSE <<>>
        d == ToNumber(StripZeros(Dec(StripLeadingZeros(int \o frac), 0 - Len(frac))))
    IN  IF int = <<>> /\ frac = <<>> THEN NaN
        ELSE IF neg /\ d.coef # <<0>> THEN Negative(d) ELSE d

RECURSIVE CoefVal(_, _)
CoefVal(ds, acc) == IF ds = <<>> THEN acc ELSE CoefVal(Tail(ds), 10 * acc + Head(ds))

\* The digits ds followed by n zeros.
Shifted(ds, n) == ds \o [i \in 1..n |-> 0]

\* as < bs for two numerals without leading zeros.
DigitsLess(as, bs) ==
    \/ Len(as) < Len(bs)
    \/ /\ Len(as) = Len(bs)
       /\ \E i \in 1..Len(as) :
              as[i] < bs[i] /\ \A j \in 1..(i - 1) : as[j] = bs[j]

\* a <= b for decimals, compared digit by digit at their common scale.
DecLeq(a, b) ==
    LET m == IF a.exp < b.exp THEN a.exp ELSE b.exp
        as == StripLeadingZeros(Shifted(a.coef, a.exp - m))
        bs == StripLeadingZeros(Shifted(b.coef, b.exp - m))
        sa == IF as = <<0>> THEN 0 ELSE Sign(a)
        sb == IF bs = <<0>> THEN 0 ELSE Sign(b)
    IN  IF sa # sb THEN sa < sb
        ELSE IF sa = 0 THEN TRUE
        ELSE IF sa = 1 THEN ~DigitsLess(bs, as)
        ELSE ~DigitsLess(as, bs)

\* new Date(value) for a date written yyyy-mm-dd, as the number yyyymmdd;
\* an invalid date for every other string.
NewDate(value) ==
    LET cs == Chars(value)
        ds == {1, 2, 3, 4, 6, 7, 9, 10}
    IN  IF /\ Len(cs) = 10
           /\ \A i \in ds : cs[i] \in Digits
           /\ cs[5] = "-" /\ cs[8] = "-"
        THEN Some(CoefVal(DigitPrefix(SubSeq(cs, 1, 4)) \o DigitPrefix(SubSeq(cs, 6, 7))
                              \o DigitPrefix(SubSeq(cs, 9, 10)), 0))
        ELSE NaN

\* gueltige Namen fuer die Suchparameter
suchparameterNamen ==
    {"fin", "rating", "art", "preis", "rabatt", "verfuegbar", "baujahr",
     "homepage", "schlagwoerter", "identifikationsNummer"}

\* The keys #checkKeys compares with one by one.
TagKeys ==
    {"allrad", "benzin", "budget", "business", "cabrio", "e_auto", "einfach",
     "familie", "hybrid", "komfort", "kombi", "nutzfahrzeug", "pickup",
     "reichweite", "sparsam", "sport", "suv", "tech", "vier_x_vier"}

\* AutoService.#checkKeys
checkKeys(keys) ==
    \A key \in keys : key \in suchparameterNamen \/ key \in TagKeys

Autoart == {"SUV", "CABRIO", "LIMOUSINE", "E_AUTO", "KOMBI", "PICKUP", "CROSSOVER"}

\* AutoService.#checkEnums
checkEnums_mut(suchparameter) == TRUE
checkEnums(suchparameter) ==
    "art" \notin DOMAIN suchparameter \/ suchparameter.art \in Autoart

\* WhereBuilder.#buildSchlagwoerter: the keyword each flag stands for.
Schlagwort ==
    [allrad |-> "ALLRAD", benzin |-> "BENZIN", budget |-> "BUDGET",
     business |-> "BUSINESS", cabrio |-> "CABRIO", e_auto |-> "E-AUTO",
     einfach |-> "EINFACH", familie |-> "FAMILIE", hybrid |-> "HYBRID",
     komfort |-> "KOMFORT", kombi |-> "KOMBI", nutzfahrzeug |-> "NUTZFAHRZEUG",
     pickup |-> "PICKUP", reichweite |-> "REICHWEITE", sparsam |-> "SPARSAM",
     sport |-> "SPORT", suv |-> "SUV", tech |-> "TECH", vier_x_vier |-> "4x4"]

\* WhereBuilder.#buildSchlagwoerter: the keywords of the flags that are 'true'.
buildSchlagwoerter(suchparameter) ==
    {Schlagwort[flag] : flag \in {f \in DOMAIN Schlagwort \cap DOMAIN suchparameter :
                                      IsTrue(suchparameter[f])}}

\* WhereBuilder.build, the switch over restProps: the column a key filters.
Column(key) ==
    CASE key = "identifikationsNummer" -> "fahrzeugschein"
      [] key \in {"lieferbar", "verfuegbar"} -> "verfuegbar"
      [] key \in {"baujahr", "datum"} -> "baujahr"
      [] OTHER -> key

\* WhereBuilder.build, the switch over restProps: the condition a key and its
\* value put on the column, undefined when they put none.
Condition(key, value) ==
    CASE key = "identifikationsNummer" -> [contains |-> value, mode |-> "insensitive"]
      [] key = "fin" -> [equals |-> value]
      [] key = "rating" ->
            LET ratingNumber == ParseInt(Chars(value)) IN
            IF ratingNumber # NaN THEN [gte |-> ratingNumber.val] ELSE Undefined
      [] key = "preis" ->
            LET preisNumber == ParseFloat(Chars(value)) IN
            IF preisNumber # NaN THEN [lte |-> preisNumber] ELSE Undefined
      [] key = "art" -> [equals |-> value]
      [] key = "lieferbar" -> [equals |-> IsTrue(value)]
      [] key = "verfuegbar" -> [equals |-> IsTrue(value)]
      [] key \in {"baujahr", "datum"} -> [gte |-> NewDate(value)]
      [] key = "homepage" -> [equals |-> value]
      [] OTHER -> Undefined

\* WhereBuilder.build: the where clause, column -> condition.
build(suchparameter) ==
    LET restProps == DOMAIN suchparameter \ DOMAIN Schlagwort
        acting == {key \in restProps : Condition(key, suchparameter[key]) # Undefined}
        schlagwoerter == buildSchlagwoerter(suchparameter)
        columns == {Column(key) : key \in acting}
                       \cup (IF schlagwoerter # {} THEN {"schlagwoerter"} ELSE {})
    IN  [column \in columns |->
            IF column = "schlagwoerter" /\ schlagwoerter # {}
            THEN [array_contains |-> schlagwoerter]
            ELSE LET key == CHOOSE k \in acting : Column(k) = column
                 IN  Condition(key, suchparameter[key])]

\* ------------------------------------------------------------ search calls
Range(f) == {f[i] : i \in DOMAIN f}

\* contains: needle is a substring of hay.
Contains(hay, needle) ==
    \E i \in 0..(Len(hay) - Len(needle)) : SubSeq(hay, i + 1, i + Len(needle)) = needle

\* The comparisons of the store: gte, lte on decimals, array_contains.
Gte_mut(x, y) == x <= y
Gte(x, y) == x >= y

Lte_mut(a, b) == DecLeq(b, a)
Lte(a, b) == DecLeq(a, b)

ArrayContains_mut(have, want) == have \cap want # {}
ArrayContains(have, want) == want \subseteq have

\* The store's test of one condition of a where clause on a row.
Satisfies(row, column, cond) ==
    CASE column = "fahrzeugschein" ->
            Contains(ToLowerCase(Chars(row.fahrzeugschein.identifikationsNummer)),
                     ToLowerCase(Chars(cond.contains)))
      [] column = "fin" -> row.fin = cond.equals
      [] column = "rating" -> Gte(row.rating, cond.gte)
      [] column = "preis" -> Lte(row.preis, cond.lte)
      [] column = "art" -> row.art = Some(cond.equals)
      [] column = "verfuegbar" -> row.verfuegbar = Some(cond.equals)
      [] column = "baujahr" ->
            row.baujahr # Null /\ Gte(NewDate(row.baujahr.val).val, cond.gte.val)
      [] column = "homepage" -> row.homepage = Some(cond.equals)
      [] column = "schlagwoerter" ->
            /\ row.schlagwoerter # Null
            /\ ArrayContains(Range(row.schlagwoerter.val), cond.array_contains)

\* The ids of the rows a where clause selects.
Selected(where) ==
    {id \in DOMAIN autos :
        \A column \in DOMAIN where : Satisfies(autos[id], column, where[column])}

\* prisma.auto.findMany({ where, skip, take, include }): no order is asked
\* for, so a page is any take (or the remaining) of the selected rows.
findMany(where, skip, take) ==
    LET ids == Selected(where)
        rest == Cardinality(ids) - skip
        n == IF rest < 0 THEN 0 ELSE IF rest < take THEN rest ELSE take
    IN  {{Included(autos[id], FALSE) : id \in page} :
            page \in {sub \in SUBSET ids : Cardinality(sub) = n}}

\* autos.length === 0
KeineAutos_mut(autosFound) == FALSE
KeineAutos(autosFound) == autosFound = {}

\* AutoService.#createSlice
createSlice(autosFound, totalElements) ==
    [content |-> {NormSchlagwoerter(auto) : auto \in autosFound},
     totalElements |-> totalElements]

\* A record created with keywords that are not the upper case of their flags.
FinC == "WAU98765432112ABC"
Preis45000 == Dec(<<4, 5>>, 3)
DtoElektro ==
    [fin |-> FinC, rating |-> 4, art |-> Some("E_AUTO"), preis |-> Preis45000,
     rabatt |-> Undefined, verfuegbar |-> Some(FALSE),
     baujahr |-> Some("2024-06-01"), homepage |-> Undefined,
     schlagwoerter |-> Some(<<"E-AUTO", "4x4", "SUV">>),
     fahrzeugschein |-> [identifikationsNummer |-> "S-EA2024",
                         erstzulassung |-> Undefined,
                         gueltigBis |-> "2029-06-01"],
     ausstattungen |-> Undefined]
SearchDTOs == CreateDTOs \cup {DtoElektro}

\* Every name a query may carry: those find accepts, those the builder
\* acts on, and one that is neither.
QueryNames == suchparameterNamen \cup TagKeys \cup {"lieferbar", "datum", "foo"}

\* A value for each name.
QueryValue(name) ==
    CASE name = "fin" -> FinA
      [] name = "rating" -> "3"
      [] name = "art" -> "SUV"
      [] name = "preis" -> "12000"
      [] name = "rabatt" -> "0.05"
      [] name = "baujahr" -> "2023-06-01"
      [] name = "datum" -> "2023-06-01"
      [] name = "homepage" -> "https://www.mercedes.de"
      [] name = "schlagwoerter" -> "ALLRAD"
      [] name = "identifikationsNummer" -> "ka"
      [] name = "foo" -> "bar"
      [] OTHER -> "true"

\* Queries with one parameter, and queries that combine parameters, carry
\* other values, a category that does not exist or an unknown name.
OneParameter == {[k \in {name} |-> QueryValue(name)] : name \in QueryNames}
Combined ==
    { [rating |-> "1"], [rating |-> "2"], [rating |-> "4"], [rating |-> "5"],
      [preis |-> "0.1"], [preis |-> "12999.99"], [preis |-> "50000"],
      [rating |-> "3", preis |-> "12999.99"],
      [rating |-> "2", allrad |-> "true"],
      [rating |-> "4", foo |-> "bar"],
      [art |-> "XYZ"], [art |-> "XYZ", rating |-> "1"],
      [art |-> "E_AUTO", rating |-> "1"],
      [allrad |-> "true", hybrid |-> "TRUE"],
      [allrad |-> "true", sport |-> "true"],
      [e_auto |-> "true", vier_x_vier |-> "true", suv |-> "True"],
      [identifikationsNummer |-> "mc3", verfuegbar |-> "false"],
      [allrad |-> "false"], [allrad |-> "yes", sport |-> "FALSE"],
      [hybrid |-> "tRuE", allrad |-> "false"], [suv |-> "1"],
      [rating |-> "abc"], [rating |-> "3abc"],
      [preis |-> "abc"], [preis |-> "12000xyz"] }
Suchparameters == OneParameter \cup Combined \cup {[k \in {} |-> ""], Undefined}

\* Pageable: page number and page size.
Pageables ==
    { [number |-> 0, size |-> 1], [number |-> 1, size |-> 1],
      [number |-> 0, size |-> 2], [number |-> 1, size |-> 2] }

\* find, up to its findMany (or that of #findAll).
FindRequest(p, suchparameters) ==
    /\ pc[p] = "idle"
    /\ \E suchparameter \in suchparameters, pageable \in Pageables :
        LET skip == pageable.number * pageable.size
            call(autosFound, queried) ==
                [op |-> "find", suchparameter |-> suchparameter, pageable |-> pageable,
                 autos |-> autosFound, queried |-> queried]
        IN
        IF suchparameter = Undefined \/ DOMAIN suchparameter = {}
        THEN \E autosFound \in findMany(<<>>, skip, pageable.size) :
                /\ local' = [local EXCEPT ![p] = call(autosFound, TRUE)]
                /\ IF KeineAutos(autosFound)
                   THEN Finish(p, Thrown("NotFound", "Ungueltige Seite"))
                   ELSE Goto(p, "find_count")
        ELSE IF ~checkKeys(DOMAIN suchparameter) \/ ~checkEnums(suchparameter)
        THEN /\ local' = [local EXCEPT ![p] = call({}, FALSE)]
             /\ Finish(p, Thrown("NotFound", "Ungueltige Suchparameter"))
        ELSE LET where == build(suchparameter) IN
             IF "baujahr" \in DOMAIN where /\ where.baujahr.gte = NaN
             THEN /\ local' = [local EXCEPT ![p] = call({}, TRUE)]
                  /\ Finish(p, Thrown("StoreError", "InvalidDate"))
             ELSE \E autosFound \in findMany(where, skip, pageable.size) :
                     /\ local' = [local EXCEPT ![p] = call(autosFound, TRUE)]
                     /\ IF KeineAutos(autosFound)
                        THEN Finish(p, Thrown("NotFound", "Keine Autos gefunden"))
                        ELSE Goto(p, "find_count")
    /\ UNCHANGED <<autos, files, nextId, created, updates, lastFile>>

Find(p) == FindRequest(p, Suchparameters)

\* find: the count of all vehicles, and the slice.
FindCount(p) ==
    /\ pc[p] = "find_count"
    /\ Finish(p, Ok(createSlice(local[p].autos, Cardinality(DOMAIN autos))))
    /\ UNCHANGED <<autos, files, nextId, local, created, updates, lastFile>>

\* Searches between non-overlapping creates and deletes.
FindNext ==
    \E p \in Procs :
        \/ Alone(p) /\ CreateCall(p, SearchDTOs)
        \/ Alone(p) /\ CreateInsert(p)
        \/ Alone(p) /\ DeleteFind(p)
        \/ Alone(p) /\ DeleteDelete(p)
        \/ Alone(p) /\ Find(p)
        \/ Alone(p) /\ FindCount(p)
        \/ Alone(p) /\ Return(p)

FindSpec == Init /\ [][FindNext]_vars

\* Searches, without parameters and with a minimum rating, that overlap with
\* creates and deletes.
FindRaceNext ==
    \E p \in Procs :
        \/ CreateCall(p, SearchDTOs)
        \/ CreateInsert(p)
        \/ DeleteFind(p)
        \/ DeleteDelete(p)
        \/ FindRequest(p, {Undefined, [rating |-> "1"]})
        \/ FindCount(p)
        \/ Return(p)

FindRaceSpec == Init /\ [][FindRaceNext]_vars

\* ------------------------------------------------------------------- REST
\* The token of a request: none (or none that is valid), or the token of a
\* user with the role user or the role admin.
Tokens == {"none", "user", "admin"}

\* @Roles(...) of the handlers of AutoWriteController.
Roles == [post |-> {"admin", "user"}, put |-> {"admin", "user"}, delete |-> {"admin"}]

\* @Public() of the handlers of AutoWriteController.
Public == {"addFile"}

Endpoints == DOMAIN Roles \cup Public

\* @UseGuards(AuthGuard): a public handler is open to everyone; another one
\* needs a valid token (401 without) whose role is among the handler's roles
\* (403 otherwise).
Guard(endpoint, token) ==
    IF endpoint \in Public THEN "pass"
    ELSE IF token = "none" THEN "Unauthorized"
    ELSE IF token \notin Roles[endpoint] THEN "Forbidden"
    ELSE "pass"

Context(endpoint, token) == [endpoint |-> endpoint, token |-> token]

\* The header If-Match of a PUT: absent, or a string; of the strings, the
\* well-formed ones and the "-1" of the test of an old version number.
IfMatchStrs == {s \in VersionStrs : WellFormed(s)} \cup {<<DQ, "-", "1", DQ>>}
IfMatchHeaders == {Undefined} \cup {Some(s) : s \in IfMatchStrs}

\* A request that the guard turns away: no handler runs.
Rejected(p) ==
    /\ pc[p] = "idle"
    /\ \E endpoint \in Endpoints, token \in Tokens, version \in IfMatchHeaders :
        LET ctx == IF endpoint = "put"
                   THEN Context(endpoint, token) @@ [ifMatch |-> version]
                   ELSE Context(endpoint, token)
        IN
        /\ endpoint # "put" => version = Undefined
        /\ Guard(endpoint, token) # "pass"
        /\ local' = [local EXCEPT ![p] = ctx @@ [op |-> "rejected"]]
        /\ Finish(p, Thrown(Guard(endpoint, token), endpoint))
    /\ UNCHANGED <<autos, files, nextId, created, updates, lastFile>>


\* POST /rest/:id
PostFile(p) ==
    \E token \in Tokens :
        /\ Guard("addFile", token) = "pass"
        /\ AddFileRequest(p, Context("addFile", token))

\* version === undefined
HeaderMissing_mut(version) == FALSE
HeaderMissing(version) == version = Undefined

MSG_IF_MATCH_FEHLT == "Header \"If-Match\" fehlt"

\* RegExp.test(versionStr) tests the string of its argument.
StringOf(version) == IF version = Undefined THEN Chars("undefined") ELSE version.val

MAX_RATING == 5

\* A body as in the test of a PUT with invalid data: rating and art are
\* outside their ranges.
DtoInvalid == [DtoGeaendert EXCEPT !.rating = 0 - 1, !.art = Some("FALSCH")]
PutBodies == UpdateDTOs \cup {DtoInvalid}

\* BigNumber(0), BigNumber(1)
Zero == Dec(<<0>>, 0)
One == Dec(<<1>>, 0)

\* DecimalMin.validate: value.isGreaterThan(minValue), true without a value.
DecimalMin(value, minValue) == value = Undefined \/ ~DecLeq(value.val, minValue)

\* DecimalMax.validate: value.isLessThan(maxValue), true without a value.
DecimalMax(value, maxValue) == value = Undefined \/ ~DecLeq(maxValue, value.val)

\* The constraints of AutoDtoOhneRef on preis and rabatt.
ValidDecimals(dto) ==
    /\ DecimalMin(Some(dto.preis), Zero)
    /\ DecimalMin(dto.rabatt, Zero)
    /\ DecimalMax(dto.rabatt, One)

\* The constraints of AutoDtoOhneRef on the other fields the bodies differ
\* in: the length of the FIN, @IsInt @Min(0) @Max(MAX_RATING) of rating, and
\* the values of art, which is optional.
ValidScalars(dto) ==
    /\ Len(dto.fin) = 17
    /\ dto.rating \in 0..MAX_RATING
    /\ dto.art = Undefined \/ dto.art.val \in Autoart

Valid(dto) == ValidScalars(dto) /\ ValidDecimals(dto)

\* POST /rest with one of the bodies given.  A body that violates the
\* constraints of its class is answered before the handler runs.
PostRequest(p, bodies) ==
    \E token \in Tokens, autoDTO \in bodies :
        LET ctx == Context("post", token) IN
        /\ Guard("post", token) = "pass"
        /\ IF ~Valid(autoDTO)
           THEN /\ pc[p] = "idle"
                /\ local' = [local EXCEPT ![p] = ctx @@ [op |-> "invalid", dto |-> autoDTO]]
                /\ Finish(p, Thrown("ValidationFailed", autoDTO))
                /\ UNCHANGED <<autos, files, nextId, created, updates, lastFile>>
           ELSE CreateRequest(p, {autoDTO}, ctx)

\* POST /rest
Post(p) == PostRequest(p, CreateDTOs)

\* PUT /rest/:id with one of the bodies and of the headers given.  A body that
\* violates the constraints of its class is answered before the handler runs.
PutRequest(p, bodies, headers) ==
    \E token \in Tokens, version \in headers, autoDTO \in bodies :
        LET ctx == Context("put", token) @@ [ifMatch |-> version] IN
        /\ Guard("put", token) = "pass"
        /\ IF ~Valid(autoDTO)
           THEN /\ pc[p] = "idle"
                /\ \E id \in IdArgs :
                    local' = [local EXCEPT ![p] = ctx @@
                                 [op |-> "invalid", id |-> id, dto |-> autoDTO]]
                /\ Finish(p, Thrown("ValidationFailed", autoDTO))
                /\ UNCHANGED <<autos, files, nextId, created, updates, lastFile>>
           ELSE IF HeaderMissing(version)
           THEN /\ pc[p] = "idle"
                /\ \E id \in IdArgs :
                    local' = [local EXCEPT ![p] = ctx @@
                                 [op |-> "put", id |-> id, dto |-> autoDTO]]
                /\ Finish(p, Thrown("PreconditionRequired", MSG_IF_MATCH_FEHLT))
                /\ UNCHANGED <<autos, files, nextId, created, updates, lastFile>>
           ELSE UpdateRequest(p, {autoDTO}, {StringOf(version)}, ctx)

\* PUT /rest/:id
Put(p) == PutRequest(p, PutBodies, IfMatchHeaders)

\* DELETE /rest/:id
Delete(p) ==
    \E token \in Tokens :
        /\ Guard("delete", token) = "pass"
        /\ DeleteRequest(p, Context("delete", token))

\* The status of the response to a request that ended with result r.
StatusOf(endpoint, r) ==
    CASE r.outcome = "ok" -> IF endpoint = "post" THEN 201 ELSE 204
      [] r.outcome = "Unauthorized" -> 401
      [] r.outcome = "Forbidden" -> 403
      [] r.outcome = "PreconditionRequired" -> 428
      [] r.outcome = "ValidationFailed" -> 400
      [] r.outcome = "NotFound" -> 404
      [] r.outcome = "FinExists" -> 422
      [] r.outcome \in {"VersionInvalid", "VersionOutdated"} -> 412
      [] OTHER -> 500

\* What the message of the response to result r is about.
MessageOf(r) ==
    CASE r.outcome \in {"VersionInvalid", "VersionOutdated"} -> "Versionsnummer"
      [] r.outcome = "PreconditionRequired" -> r.value
      [] OTHER -> r.outcome

\* Requests, one at a time: each is served to its end before the next one
\* arrives, so that one task serves them all.
Server == CHOOSE p \in Procs : TRUE

RestNext ==
    \E p \in {Server} :
        \/ Alone(p) /\ Rejected(p)
        \/ Alone(p) /\ Post(p)
        \/ Alone(p) /\ PostFile(p)
        \/ Alone(p) /\ Put(p)
        \/ Alone(p) /\ Delete(p)
        \/ CreateInsert(p)
        \/ UpdateWrite(p)
        \/ DeleteDelete(p)
        \/ Return(p)

RestSpec == Init /\ [][RestNext]_vars

\* ------------------------------------------------- validation of decimals
\* Prices and discounts at and around the ends of their ranges:
\* -1, 0, 0.01 and -0.01, 0, 0.05, 0.9999, 1.
Preise == {Negative(One), Zero, Dec(<<1>>, -2)}
Rabatte == {Undefined, Some(Negative(Dec(<<1>>, -2))), Some(Zero), Some(Rabatt0_05),
            Some(Dec(<<9, 9, 9, 9>>, -4)), Some(One)}

DecimalPostBodies ==
    {[DtoMinimal EXCEPT !.preis = preis, !.rabatt = rabatt] :
        preis \in Preise, rabatt \in Rabatte}
DecimalPutBodies ==
    {[DtoGeaendert EXCEPT !.preis = preis, !.rabatt = rabatt] :
        preis \in Preise, rabatt \in Rabatte}

\* Creates and updates over REST with these prices and discounts, one request
\* at a time.
DecimalNext ==
    \E p \in {Server} :
        \/ Alone(p) /\ PostRequest(p, DecimalPostBodies)
        \/ CreateInsert(p)
        \/ Alone(p) /\ PutRequest(p, DecimalPutBodies, {Some(<<DQ, "0", DQ>>)})
        \/ UpdateWrite(p)
        \/ Return(p)

DecimalSpec == Init /\ [][DecimalNext]_vars

\* ---------------------------------------------------------- GET /rest/:id
DigitChar(d) ==
    CASE d = 0 -> "0" [] d = 1 -> "1" [] d = 2 -> "2" [] d = 3 -> "3"
      [] d = 4 -> "4" [] d = 5 -> "5" [] d = 6 -> "6" [] d = 7 -> "7"
      [] d = 8 -> "8" [] d = 9 -> "9"

\* The decimal numeral of a natural number, as a template literal writes it.
RECURSIVE Numeral(_)
Numeral(n) == IF n < 10 THEN <<DigitChar(n)>>
              ELSE Numeral(n \div 10) \o <<DigitChar(n % 10)>>

\* `"${versionDb}"`
Quoted(versionDb) == <<DQ>> \o Numeral(versionDb) \o <<DQ>>

\* version === `"${versionDb}"`
NotModified_mut(version, versionDb) == FALSE
NotModified(version, versionDb) == version = Some(Quoted(versionDb))

\* The header If-None-Match of a GET: absent, quoted versions, a version
\* without quotes, and a quoted numeral with a leading zero.
IfNoneMatchHeaders ==
    {Undefined} \cup {Some(Quoted(v)) : v \in 0..MaxVersion}
                \cup {Some(<<"0">>), Some(<<DQ, "0", "0", DQ>>)}

\* GET /rest/:id, whose one store call is the findUnique of findById({ id }).
\* accepts is whether the request accepts json or html.
GetById(p) ==
    /\ pc[p] = "idle"
    /\ \E id \in IdArgs, version \in IfNoneMatchHeaders, accepts \in BOOLEAN :
        /\ local' = [local EXCEPT ![p] =
                [op |-> "getById", id |-> id, ifNoneMatch |-> version,
                 accepts |-> accepts]]
        /\ IF ~accepts
           THEN Finish(p, Ok([status |-> 406]))
           ELSE IF ~Exists(id)
           THEN Finish(p, Thrown("NotFound", id))
           ELSE LET auto == NormSchlagwoerter(Included(autos[id], FALSE))
                    versionDb == auto.version
                IN  IF NotModified(version, versionDb)
                    THEN Finish(p, Ok([status |-> 304]))
                    ELSE Finish(p, Ok([status |-> 200, etag |-> Quoted(versionDb),
                                       body |-> auto]))
    /\ UNCHANGED <<autos, files, nextId, created, updates, lastFile>>

\* Reads of single vehicles between creates, updates and deletes, one call
\* at a time.
GetNext ==
    \E p \in {Server} :
        \/ Alone(p) /\ CreateValidate(p)
        \/ CreateInsert(p)
        \/ Alone(p) /\ UpdateCall(p, {s \in VersionStrs : WellFormed(s)})
        \/ UpdateWrite(p)
        \/ Alone(p) /\ DeleteFind(p)
        \/ DeleteDelete(p)
        \/ Alone(p) /\ GetById(p)
        \/ Return(p)

GetSpec == Init /\ [][GetNext]_vars

\* ------------------------------------------------ versions near the limit
\* A vehicle that has been updated HighVersion times.
HighInit ==
    /\ autos = (1 :> [NewRow(1, autoDtoToAutoCreateInput(DtoNeuesAuto))
                          EXCEPT !.version = HighVersion])
    /\ files = <<>>
    /\ nextId = 2
    /\ pc = [p \in Procs |-> "idle"]
    /\ local = [p \in Procs |-> NoLocal]
    /\ result = [p \in Procs |-> NoResult]
    /\ created = (1 :> Null)
    /\ updates = (1 :> HighVersion)
    /\ lastFile = <<>>

\* Version strings around the largest number of three digits: "998", "999",
\* "1000", "999"0, "0999", "1000 without its closing quote, "0", and 1000
\* without quotes.
HighVersionStrs ==
    { <<DQ, "9", "9", "8", DQ>>, <<DQ, "9", "9", "9", DQ>>,
      <<DQ, "1", "0", "0", "0", DQ>>, <<DQ, "9", "9", "9", DQ, "0">>,
      <<DQ, "0", "9", "9", "9", DQ>>, <<DQ, "1", "0", "0", "0">>,
      <<DQ, "0", DQ>>, <<"1", "0", "0", "0">> }

\* Updates of that vehicle, one call at a time.
HighNext ==
    \E p \in Procs :
        \/ Alone(p) /\ UpdateCall(p, HighVersionStrs)
        \/ UpdateWrite(p)
        \/ Return(p)

HighSpec == HighInit /\ [][HighNext]_vars

\* ================================================================ claims
Done(p, op) == pc[p] = "done" /\ local[p].op = op
Finishes(p) == pc[p] # "done" /\ pc'[p] = "done"

\* The number a well-formed or accepted version string stands for.
Claimed(p) == ParseInt(Slice1(local[p].versionStr)).val

\* An update on an existing record with a well-formed token has returned.
UpdateChecked(p) ==
    /\ Done(p, "update")
    /\ WellFormed(local[p].versionStr)
    /\ local[p].autoDb # Undefined

\* The outcome of a checked update, by the token's value and the stored version.
C1_Result ==
    \A p \in Procs :
        UpdateChecked(p) =>
            LET v == Claimed(p)
                s == local[p].autoDb.version
            IN  IF v < s
                THEN /\ result[p] = Thrown("VersionOutdated", Some(v))
                     /\ autos[local[p].id].version = s
                ELSE /\ result[p] = Ok(s + 1)
                     /\ autos[local[p].id].version = s + 1
\* A rejected update writes nothing.
C1_Unchanged ==
    \A p \in Procs :
        Finishes(p) /\ result'[p].outcome = "VersionOutdated" =>
            autos' = autos /\ files' = files

\* C1: non-overlapping calls.  An update with a well-formed token of value v on
\* a record of stored version s fails with VersionOutdated carrying v, and the
\* store is left as it was, when v < s; when v >= s it succeeds, the stored
\* version is s + 1, and s + 1 is what it returns.
C1_VersionCheck == [] C1_Result /\ [][C1_Unchanged]_vars

\* C1 witness: an update claiming a version above the stored one has succeeded.
C1_Witness ==
    \E p \in Procs :
        /\ UpdateChecked(p)
        /\ Claimed(p) > local[p].autoDb.version
        /\ result[p] = Ok(local[p].autoDb.version + 1)

\* C2: an update whose version string is not, as a whole, a double quote, one
\* to three digits and a double quote fails with VersionInvalid carrying the
\* string.
C2_WholeString ==
    \A p \in Procs :
        Done(p, "update") /\ ~WellFormed(local[p].versionStr) =>
            result[p] = Thrown("VersionInvalid", local[p].versionStr)

\* The version of a stored record is the number of writes recorded for it.
C3_Counts == \A id \in DOMAIN autos : autos[id].version = updates[id]
\* One step changes a version by 0 or +1; a new record has version 0.
C3_Steps ==
    \A id \in DOMAIN autos' :
        IF id \in DOMAIN autos
        THEN autos'[id].version \in {autos[id].version, autos[id].version + 1}
        ELSE autos'[id].version = 0

\* C3: under concurrent updates the version of a record starts at 0, changes
\* only by steps of +1, never decreases, and always equals the number of
\* updates that have written the record.
C3_Monotonic == [] C3_Counts /\ [][C3_Steps]_vars

\* C3 witness: two overlapping updates have both written the same record.
C3_Witness ==
    \E p, q \in Procs :
        /\ p # q
        /\ Done(p, "update") /\ Done(q, "update")
        /\ local[p].id = local[q].id
        /\ result[p].outcome = "ok" /\ result[q].outcome = "ok"
        /\ local[p].id \in DOMAIN autos
        /\ autos[local[p].id].version = 2

\* C4: of two overlapping updates of one record that both claim the version
\* the record has, at most one succeeds.
C4_NoLostUpdate ==
    \A p, q \in Procs :
        /\ p # q
        /\ Done(p, "update") /\ Done(q, "update")
        /\ local[p].id = local[q].id
        /\ local[p].autoDb # Undefined /\ local[q].autoDb # Undefined
        /\ local[p].autoDb = local[q].autoDb
        /\ Claimed(p) = local[p].autoDb.version
        /\ Claimed(q) = local[q].autoDb.version
        => ~(result[p].outcome = "ok" /\ result[q].outcome = "ok")

\* C5: after non-overlapping creates, updates and deletes no two stored
\* vehicles have the same FIN.
C5_FinUnique ==
    \A i, j \in DOMAIN autos : autos[i].fin = autos[j].fin => i = j

\* What a returned create reports, and what the store then holds.
C6_Result ==
    \A p \in Procs :
        Done(p, "create") =>
            LET fin == local[p].dto.fin IN
            IF result[p].outcome = "ok"
            THEN /\ result[p].value \in Nat \ {0}
                 /\ result[p].value \in DOMAIN autos
                 /\ autos[result[p].value].fin = fin
                 /\ CountFin(fin) = 1
            ELSE /\ result[p] = Thrown("FinExists", fin)
                 /\ CountFin(fin) >= 1
\* What the two steps of create do to the store.
C6_Step ==
    \A p \in Procs :
        /\ pc[p] = "idle" /\ local'[p].op = "create" =>
              /\ autos' = autos
              /\ (CountFin(local'[p].dto.fin) > 0) <=> (pc'[p] = "done")
        /\ pc[p] = "create_insert" /\ pc'[p] # "create_insert" =>
              /\ result'[p].outcome = "ok"
              /\ result'[p].value \notin DOMAIN autos
              /\ DOMAIN autos' = DOMAIN autos \cup {result'[p].value}
              /\ \A i \in DOMAIN autos : autos'[i] = autos[i]

ReadBack(p) ==
    /\ Done(p, "findById")
    /\ result[p].outcome = "ok"
    /\ created[local[p].id] # Null

\* The fields of a record r that hold for every created record: version,
\* FIN, rating, registration, and the defaults of what the input left out.
SameScalars(r, d) ==
    /\ r.version = 0
    /\ r.fin = d.fin
    /\ r.rating = d.rating
    /\ r.art = (IF d.art = Undefined THEN Null ELSE d.art)
    /\ r.verfuegbar = (IF d.verfuegbar = Undefined THEN Some(FALSE) ELSE d.verfuegbar)
    /\ r.baujahr = (IF d.baujahr = Undefined THEN Null ELSE d.baujahr)
    /\ r.homepage = (IF d.homepage = Undefined THEN Null ELSE d.homepage)
    /\ r.schlagwoerter = (IF d.schlagwoerter = Undefined THEN Some(<<>>)
                          ELSE d.schlagwoerter)
    /\ r.fahrzeugschein.identifikationsNummer = d.fahrzeugschein.identifikationsNummer
    /\ r.fahrzeugschein.gueltigBis = d.fahrzeugschein.gueltigBis
    /\ r.fahrzeugschein.erstzulassung =
           (IF d.fahrzeugschein.erstzulassung = Undefined THEN Null
            ELSE d.fahrzeugschein.erstzulassung)

\* The equipment the input gave.
GivenAusstattungen(d) ==
    IF d.ausstattungen = Undefined THEN <<>> ELSE d.ausstattungen.val

C8_Result ==
    \A p \in Procs :
        /\ Done(p, "delete") =>
              /\ result[p] \in {Ok(TRUE), Ok(FALSE)}
              /\ ~Exists(local[p].id)
        /\ Done(p, "findById") /\ ~Exists(local[p].id) =>
              result[p] = Thrown("NotFound", local[p].id)
\* What the two steps of delete do to the store; a removed id stays removed.
C8_Step ==
    /\ \A p \in Procs :
        /\ pc[p] = "idle" /\ local'[p].op = "delete" =>
              /\ autos' = autos /\ files' = files
              /\ IF Exists(local'[p].id)
                 THEN pc'[p] = "delete_delete"
                 ELSE pc'[p] = "done" /\ result'[p] = Ok(FALSE)
        /\ pc[p] = "delete_delete" /\ pc'[p] # "delete_delete" =>
              /\ result'[p] = Ok(TRUE)
              /\ DOMAIN autos' = DOMAIN autos \ {local[p].id}
              /\ \A i \in DOMAIN autos' : autos'[i] = autos[i]
    /\ \A id \in 1..(nextId - 1) : ~Exists(id) => id \notin DOMAIN autos'

\* C8: non-overlapping calls.  A delete of an id that is not stored returns
\* false and changes nothing; a delete of a stored id returns true and removes
\* that vehicle only; a removed id stays removed, so that findById on it fails
\* with NotFound and a second delete returns false.
C8_Delete == [] C8_Result /\ [][C8_Step]_vars

\* C8 witness: a delete of a stored vehicle has returned true.
C8_Witness ==
    \E p \in Procs :
        /\ Done(p, "delete")
        /\ result[p] = Ok(TRUE)
        /\ local[p].id < nextId

\* C9: an addFile for a vehicle id that is not stored fails with NotFound.
C9_NotFound ==
    \A p \in Procs :
        Done(p, "addFile") /\ ~Exists(local[p].id) =>
            result[p].outcome = "NotFound"

\* The files of vehicle autoId, and those of the other vehicles.
FilesOf(fs, autoId) == SelectSeq(fs, LAMBDA f : f.autoId = autoId)
FilesOfOthers(fs, autoId) == SelectSeq(fs, LAMBDA f : f.autoId # autoId)

\* One file per vehicle; what findFileByAutoId and addFile return.
C10_Result ==
    /\ \A i, j \in DOMAIN files : files[i].autoId = files[j].autoId => i = j
    /\ \A p \in Procs :
        /\ Done(p, "findFileByAutoId") /\ result[p].outcome = "ok" =>
              /\ local[p].id \in DOMAIN lastFile
              /\ result[p].value = lastFile[local[p].id]
        /\ Done(p, "addFile") /\ result[p].outcome = "ok" =>
              FilesOf(files, local[p].id) = <<result[p].value>>
\* What addFile does to the files.
C10_Step ==
    \A p \in Procs :
        pc[p] = "idle" /\ local'[p].op = "addFile" /\ result'[p].outcome = "ok" =>
            /\ FilesOfOthers(files', local'[p].id) = FilesOfOthers(files, local'[p].id)
            /\ result'[p].value.filename = local'[p].upload.filename
            /\ result'[p].value.data = local'[p].upload.data
            /\ result'[p].value.autoId = local'[p].id

\* C10: non-overlapping calls.  A vehicle has at most one file; addFile puts
\* the new file in the place of the vehicle's old one and leaves the files of
\* the other vehicles alone; findFileByAutoId returns the file added last.
C10_OneFile == [] C10_Result /\ [][C10_Step]_vars

\* C10 witness: an addFile has put a file in the place of an older one.
C10_Witness ==
    \E p \in Procs :
        /\ Done(p, "addFile")
        /\ result[p].outcome = "ok"
        /\ local[p].deleted = 1

\* A find with a query that is not empty.
FindWith(p) ==
    /\ local[p].op = "find"
    /\ local[p].suchparameter # Undefined
    /\ DOMAIN local[p].suchparameter # {}

\* A find with a query that is not empty has returned a slice.
Found(p) == FindWith(p) /\ pc[p] = "done" /\ result[p].outcome = "ok"

\* The query has a name that is neither a search parameter nor a tag flag, or
\* a category that is none of the seven.
InvalidQuery(sp) ==
    \/ \E name \in DOMAIN sp : name \notin suchparameterNamen \cup DOMAIN Schlagwort
    \/ "art" \in DOMAIN sp /\ sp.art \notin Autoart

\* C11: a find with a non-empty query that has an unknown name or an unknown
\* category fails with NotFound "Ungueltige Suchparameter", whatever the store
\* holds and whatever else the query carries, and does not query the store.
C11_InvalidParameters ==
    \A p \in Procs :
        FindWith(p) /\ InvalidQuery(local[p].suchparameter) =>
            /\ pc[p] = "done"
            /\ result[p] = Thrown("NotFound", "Ungueltige Suchparameter")
            /\ ~local[p].queried

\* C11 witness: a query with a valid minimum rating and an unknown category has
\* been rejected while vehicles are stored.
C11_Witness ==
    \E p \in Procs :
        /\ FindWith(p)
        /\ pc[p] = "done"
        /\ local[p].suchparameter = [art |-> "XYZ", rating |-> "1"]
        /\ autos # <<>>

\* C12: find accepts a parameter name exactly when the filter builder puts a
\* condition on the query for it.
C12_SameNames ==
    \A p \in Procs :
        FindWith(p) /\ local[p].suchparameter \in OneParameter =>
            (local[p].queried <=> DOMAIN build(local[p].suchparameter) # {})

\* C13: every vehicle in the content of a successful find with rating=r, alone
\* or with other parameters, has a rating of at least r.
C13_MinRating ==
    \A p \in Procs :
        Found(p) /\ "rating" \in DOMAIN local[p].suchparameter
                 /\ ParseInt(Chars(local[p].suchparameter.rating)) # NaN =>
            \A auto \in result[p].value.content :
                auto.rating >= ParseInt(Chars(local[p].suchparameter.rating)).val

\* C13 witness: a search with a minimum rating and a maximum price has returned
\* vehicles while a vehicle with a lower rating is stored.
C13_Witness ==
    \E p \in Procs :
        /\ Found(p)
        /\ local[p].suchparameter = [rating |-> "3", preis |-> "12999.99"]
        /\ \E id \in DOMAIN autos : autos[id].rating < 3

\* C14: every vehicle in the content of a successful find with preis=p has a
\* price of at most p.
C14_MaxPreis ==
    \A p \in Procs :
        Found(p) /\ "preis" \in DOMAIN local[p].suchparameter
                 /\ ParseFloat(Chars(local[p].suchparameter.preis)) # NaN =>
            \A auto \in result[p].value.content :
                DecLeq(auto.preis, ParseFloat(Chars(local[p].suchparameter.preis)))

\* C14 witness: a search with a maximum price has returned vehicles while a
\* more expensive vehicle is stored.
C14_Witness ==
    \E p \in Procs :
        /\ Found(p)
        /\ local[p].suchparameter = [preis |-> "12000"]
        /\ \E id \in DOMAIN autos : ~DecLeq(autos[id].preis, Dec(<<1, 2>>, 3))

UpperChar(c) ==
    IF \E i \in DOMAIN LowerLetters : LowerLetters[i] = c
    THEN UpperLetters[CHOOSE i \in DOMAIN LowerLetters : LowerLetters[i] = c]
    ELSE c

\* The keyword of a tag flag: its name in upper case, but for two flags.
KeywordChars(flag) ==
    IF flag = "e_auto" THEN Chars("E-AUTO")
    ELSE IF flag = "vier_x_vier" THEN Chars("4x4")
    ELSE [i \in 1..Len(flag) |-> UpperChar(Chars(flag)[i])]

\* The tag flags a query sets to true.
FlagsSet(sp) == {flag \in TagKeys \cap DOMAIN sp : IsTrue(sp[flag])}

\* C15: every vehicle in the content of a successful find has the keyword of
\* every tag flag the query sets to true.
C15_AllKeywords ==
    \A p \in Procs :
        Found(p) =>
            \A auto \in result[p].value.content :
                \A flag \in FlagsSet(local[p].suchparameter) :
                    \E i \in DOMAIN auto.schlagwoerter.val :
                        Chars(auto.schlagwoerter.val[i]) = KeywordChars(flag)

\* C15 witness: a search with the flags e_auto, vier_x_vier and suv has returned
\* a vehicle while a vehicle without these keywords is stored.
C15_Witness ==
    \E p \in Procs :
        /\ Found(p)
        /\ FlagsSet(local[p].suchparameter) = {"e_auto", "vier_x_vier", "suv"}
        /\ \E id \in DOMAIN autos : autos[id].schlagwoerter = Some(<<>>)

\* The number of rows on the page a find asks for.
OnPage(p) ==
    LET sp == local[p].suchparameter
        where == IF FindWith(p) THEN build(sp) ELSE <<>>
        rest == Cardinality(Selected(where))
                    - local[p].pageable.number * local[p].pageable.size
    IN  IF rest < 0 THEN 0
        ELSE IF rest < local[p].pageable.size THEN rest ELSE local[p].pageable.size

\* C16: non-overlapping calls.  A find never returns an empty content: when
\* the page it asks for is empty, of a search or of all vehicles, it fails with
\* NotFound.
C16_NeverEmpty ==
    \A p \in Procs :
        local[p].op = "find" =>
            /\ pc[p] = "find_count" => local[p].autos # {}
            /\ pc[p] = "done" /\ result[p].outcome = "ok" =>
                  result[p].value.content # {}
            /\ pc[p] = "done" /\ local[p].queried /\ OnPage(p) = 0 =>
                  result[p].outcome = "NotFound"

\* C16 witness: a find of all vehicles for a page past the end has failed with
\* NotFound while vehicles are stored.
C16_Witness ==
    \E p \in Procs :
        /\ Done(p, "find")
        /\ local[p].suchparameter = Undefined
        /\ result[p] = Thrown("NotFound", "Ungueltige Seite")
        /\ autos # <<>>

\* C17: the totalElements of the slice of a find with search parameters is the
\* number of stored vehicles that match the parameters.
C17_TotalOfSearch ==
    \A p \in Procs :
        Found(p) =>
            result[p].value.totalElements
                = Cardinality(Selected(build(local[p].suchparameter)))

\* A request that arrived over REST.
Request(p) == "token" \in DOMAIN local[p]

Answered(p, status) ==
    pc[p] = "done" /\ StatusOf(local[p].endpoint, result[p]) = status

\* C18: a request to POST /rest, POST /rest/:id, PUT /rest/:id or DELETE
\* /rest/:id without a valid token is answered with 401 and the write service
\* is not called; a DELETE with the token of a user who is not an admin is
\* answered with 403 and the write service is not called.
C18_NoAnonymousWrite ==
    \A p \in Procs :
        Request(p) =>
            /\ local[p].token = "none" =>
                   Answered(p, 401) /\ local[p].op = "rejected"
            /\ local[p].endpoint = "delete" /\ local[p].token = "user" =>
                   Answered(p, 403) /\ local[p].op = "rejected"

\* A PUT on an existing record with an old version number has been answered:
\* the tested "-1", or a well-formed token below the stored version.
OldVersionPut(p) ==
    /\ Request(p)
    /\ Done(p, "update")
    /\ \/ local[p].versionStr = <<DQ, "-", "1", DQ>> /\ Exists(local[p].id)
       \/ UpdateChecked(p) /\ Claimed(p) < local[p].autoDb.version

\* The answer to a PUT with an old version number.
C19_Result ==
    \A p \in Procs :
        OldVersionPut(p) =>
            /\ Answered(p, 412)
            /\ MessageOf(result[p]) = "Versionsnummer"
\* A PUT answered with 412 has written nothing.
C19_Unchanged ==
    \A p \in Procs :
        Finishes(p) /\ local'[p].op = "update" /\ StatusOf("put", result'[p]) = 412 =>
            autos' = autos /\ files' = files

\* C19: a PUT on an existing record whose If-Match carries an old version
\* number ("-1", or a number below the stored version) is answered with 412
\* and a message about the "Versionsnummer", and the stored record, its
\* version included, is as it was.
C19_OldVersion == [] C19_Result /\ [][C19_Unchanged]_vars

\* C19 witness: a PUT with If-Match "-1" on a stored record was answered 412.
C19_Witness ==
    \E p \in Procs :
        /\ OldVersionPut(p)
        /\ local[p].versionStr = <<DQ, "-", "1", DQ>>
        /\ result[p].outcome = "VersionInvalid"
        /\ Answered(p, 412)

\* A PUT without the header If-Match.
NoIfMatch(p) == "ifMatch" \in DOMAIN local[p] /\ local[p].ifMatch = Undefined

\* The answer of the handler to a PUT without If-Match: update of the write
\* service has no part in it.
PreconditionRequired(p) ==
    /\ Answered(p, 428)
    /\ MessageOf(result[p]) = MSG_IF_MATCH_FEHLT
    /\ local[p].op = "put"

\* Every PUT without If-Match is answered with 428, whoever sends it and
\* whatever its body.
C20_AnyPut == \A p \in Procs : NoIfMatch(p) => PreconditionRequired(p)

\* The answer to a PUT without If-Match that reaches the handler.
C20_Result ==
    \A p \in Procs :
        /\ NoIfMatch(p)
        /\ Guard("put", local[p].token) = "pass"
        /\ local[p].op # "rejected" /\ Valid(local[p].dto)
        => PreconditionRequired(p)
\* A PUT without If-Match writes nothing.
C20_Unchanged ==
    \A p \in Procs :
        pc[p] = "idle" /\ "ifMatch" \in DOMAIN local'[p] /\ local'[p].ifMatch = Undefined =>
            autos' = autos /\ files' = files /\ updates' = updates

\* C20: a PUT without the header If-Match, from a caller with the role admin
\* or user and with a body that satisfies the constraints of its class, is
\* answered with 428 and the body 'Header "If-Match" fehlt', whether or not the
\* id exists; update of the write service is not called, and no PUT without
\* If-Match changes the store.
C20_NoIfMatch == [] C20_Result /\ [][C20_Unchanged]_vars

\* C20 witness: a PUT without If-Match for an id that is not stored was
\* answered 428.
C20_Witness ==
    \E p \in Procs :
        /\ NoIfMatch(p)
        /\ PreconditionRequired(p)
        /\ ~Exists(local[p].id)

\* A GET on a stored record has been answered.
GetAnswered(p) ==
    /\ Done(p, "getById")
    /\ Exists(local[p].id)

\* Every GET on a stored record is answered with 304 or 200, by the header
\* If-None-Match alone.
C21_AnyGet ==
    \A p \in Procs :
        GetAnswered(p) =>
            LET current == Quoted(autos[local[p].id].version) IN
            IF local[p].ifNoneMatch = Some(current)
            THEN result[p] = Ok([status |-> 304])
            ELSE /\ result[p].outcome = "ok"
                 /\ result[p].value.status = 200
                 /\ result[p].value.etag = current

\* C21: a GET /rest/:id on a stored record that accepts json or html is
\* answered with 304 and no body exactly when If-None-Match is the quoted
\* stored version, and otherwise with 200 and that quoted version as ETag;
\* so after an update the ETag from before the update gets 200 and the one
\* the update returned gets 304.
C21_NotModified ==
    \A p \in Procs :
        GetAnswered(p) /\ local[p].accepts =>
            LET current == Quoted(autos[local[p].id].version) IN
            IF local[p].ifNoneMatch = Some(current)
            THEN result[p] = Ok([status |-> 304])
            ELSE /\ result[p].outcome = "ok"
                 /\ result[p].value.status = 200
                 /\ result[p].value.etag = current
                 /\ result[p].value.body.version = autos[local[p].id].version

\* C21 witness: after an update of a record, a GET with the ETag of that
\* update is answered 304.
C21_Witness ==
    \E p \in Procs :
        /\ GetAnswered(p) /\ local[p].accepts
        /\ updates[local[p].id] = 1
        /\ local[p].ifNoneMatch = Some(Quoted(1))
        /\ result[p] = Ok([status |-> 304])

\* preis >= 0, and 0 <= rabatt < 1 when a discount is given.
InRange(dto) ==
    /\ DecLeq(Zero, dto.preis)
    /\ dto.rabatt # Undefined =>
           DecLeq(Zero, dto.rabatt.val) /\ ~DecLeq(One, dto.rabatt.val)

\* A create or update over REST, with a body whose other fields are valid,
\* has been answered.
Validated(p) ==
    /\ Request(p)
    /\ pc[p] = "done"
    /\ local[p].op \in {"invalid", "create", "update"}
    /\ ValidScalars(local[p].dto)

\* C22: the validation of create and update accepts a price exactly when it
\* is at least 0 and a given discount exactly when it is at least 0 and below
\* 1; a body outside these ranges is answered with a validation failure.
C22_DecimalRanges ==
    \A p \in Procs :
        Validated(p) =>
            (result[p].outcome = "ValidationFailed" <=> ~InRange(local[p].dto))

\* An update whose version string was accepted ends while no record has its id.
C23_Step ==
    \A p \in Procs :
        /\ Finishes(p)
        /\ local'[p].op = "update"
        /\ VERSION_PATTERN(local'[p].versionStr)
        /\ ~Exists(local'[p].id)
        => /\ result'[p].outcome = "NotFound"
           /\ autos' = autos

\* C23: an update fails with NotFound whenever no record with its id exists
\* when it runs, also when the record was deleted after the version check and
\* before the write; it does not succeed then, and the record is not created
\* again.
C23_NotFoundAlways == [][C23_Step]_vars

\* C24: of two concurrent deletes of the same stored record, under every
\* interleaving of their fetches and deletes, one returns true and the other
\* false: no delete raises an error, and no two deletes of one id both
\* return true.
C24_OneDeletes ==
    \A p \in Procs :
        Done(p, "delete") =>
            /\ result[p] \in {Ok(TRUE), Ok(FALSE)}
            /\ \A q \in Procs \ {p} :
                   Done(q, "delete") /\ local[q].id = local[p].id =>
                       ~(result[p] = Ok(TRUE) /\ result[q] = Ok(TRUE))

\* The insert of a create stores the vehicle whatever the store holds by then.
C25_Step ==
    \A p \in Procs :
        pc[p] = "create_insert" /\ pc'[p] = "done" =>
            /\ result'[p] = Ok(nextId)
            /\ nextId \in DOMAIN autos' \ DOMAIN autos
            /\ autos'[nextId].fin = local[p].dto.fin

\* C25: the uniqueness check of create and its insert are separate steps
\* without a barrier between them.  A create that has passed the count check
\* inserts its vehicle whatever has been stored since, so two concurrent
\* creates with the same unused FIN can both pass the check and both insert.
C25_CheckThenInsert == [][C25_Step]_vars

\* C25 witness: two creates with the same FIN, which no stored vehicle has,
\* have both passed the count check and are both about to insert.
C25_Witness ==
    \E p \in Procs : \E q \in Procs \ {p} :
        /\ pc[p] = "create_insert" /\ pc[q] = "create_insert"
        /\ local[p].dto.fin = local[q].dto.fin
        /\ CountFin(local[p].dto.fin) = 0

\* The write of a successful update, column by column and row by row.
C26_Step ==
    \A p \in Procs :
        pc[p] = "update_write" /\ pc'[p] = "done" /\ result'[p].outcome = "ok" =>
            LET id == local[p].id IN
            /\ DOMAIN autos' = DOMAIN autos
            /\ \A i \in DOMAIN autos \ {id} : autos'[i] = autos[i]
            /\ autos'[id].id = autos[id].id
            /\ autos'[id].fahrzeugschein = autos[id].fahrzeugschein
            /\ autos'[id].ausstattungen = autos[id].ausstattungen
            /\ autos'[id].version = autos[id].version + 1
            /\ files' = files

\* C26: a successful update changes only the scalar fields and the version of
\* its vehicle: the registration, the equipment, the file and the id of the
\* vehicle and every other vehicle stay as they are, and the version in the
\* data of the update (0 over REST) does not replace the stored version, which
\* is counted up by one.
C26_Frame == [][C26_Step]_vars

\* C26 witness: a vehicle with equipment and a file, at version 1, has been
\* updated to version 2.
C26_Witness ==
    \E p \in Procs :
        /\ Done(p, "update")
        /\ result[p] = Ok(2)
        /\ autos[local[p].id].ausstattungen # <<>>
        /\ \E k \in 1..Len(files) : files[k].autoId = local[p].id

\* The spellings of true, whatever the case of their letters.
TrueSpellings ==
    {"true", "truE", "trUe", "trUE", "tRue", "tRuE", "tRUe", "tRUE",
     "True", "TruE", "TrUe", "TrUE", "TRue", "TRuE", "TRUe", "TRUE"}

\* The tag flags of a query whose value is a spelling of true.
FlagsTrue(sp) == {flag \in TagKeys \cap DOMAIN sp : sp[flag] \in TrueSpellings}

\* The vehicles that have the keyword of every one of the flags.
Having(flags) ==
    {id \in DOMAIN autos :
        \A flag \in flags :
            /\ autos[id].schlagwoerter # Null
            /\ \E i \in DOMAIN autos[id].schlagwoerter.val :
                   Chars(autos[id].schlagwoerter.val[i]) = KeywordChars(flag)}

\* A find whose parameters are all tag flags has queried the store.
FlagsOnly(p) ==
    /\ FindWith(p)
    /\ DOMAIN local[p].suchparameter \subseteq TagKeys
    /\ local[p].queried

\* C27: the keywords a search requires are exactly those of the tag flags whose
\* value is "true" in any case of letters; a flag with another value requires
\* nothing, so that the page of a search with tag flags only is a page of the
\* vehicles that have the keywords of the true flags, and, when no flag is
\* true, a page of all vehicles as the search without parameters returns it.
C27_TrueFlags ==
    \A p \in Procs :
        FlagsOnly(p) =>
            LET ids == Having(FlagsTrue(local[p].suchparameter))
                skip == local[p].pageable.number * local[p].pageable.size
                rest == Cardinality(ids) - skip
                n == IF rest < 0 THEN 0
                     ELSE IF rest < local[p].pageable.size THEN rest
                     ELSE local[p].pageable.size
            IN  /\ local[p].autos \subseteq {Included(autos[id], FALSE) : id \in ids}
                /\ Cardinality(local[p].autos) = n
                /\ FlagsTrue(local[p].suchparameter) = {} =>
                       local[p].autos \in findMany(<<>>, skip, local[p].pageable.size)

\* C27 witness: a search with one flag set to "tRuE" and another to "false" has
\* returned a page while a vehicle without the keyword of the first is stored.
C27_Witness ==
    \E p \in Procs :
        /\ FlagsOnly(p) /\ Found(p)
        /\ local[p].suchparameter = [hybrid |-> "tRuE", allrad |-> "false"]
        /\ result[p].value.content # {}
        /\ Having({"hybrid"}) # DOMAIN autos

\* A numeric string: an optional sign, then digits with at most one point
\* among them, and nothing else.
NumericString(cs) ==
    LET u == IF cs # <<>> /\ Head(cs) \in {"-", "+"} THEN Tail(cs) ELSE cs IN
    /\ \E i \in DOMAIN u : u[i] \in Digits
    /\ \A i \in DOMAIN u : u[i] \in Digits \cup {"."}
    /\ Cardinality({i \in DOMAIN u : u[i] = "."}) <= 1

\* A find whose parameters are rating or preis, none of them a numeric
\* string, has queried the store.
NotNumeric(p) ==
    /\ FindWith(p)
    /\ DOMAIN local[p].suchparameter \subseteq {"rating", "preis"}
    /\ \A name \in DOMAIN local[p].suchparameter :
           ~NumericString(Chars(local[p].suchparameter[name]))

\* C28: a rating or a preis that is not a numeric string, one with a numeric
\* prefix included, puts no condition on the search, which returns what the
\* search without that parameter returns and does not fail.
C28_IgnoredNumbers ==
    \A p \in Procs :
        NotNumeric(p) =>
            /\ local[p].queried
            /\ local[p].autos \in
                   findMany(<<>>, local[p].pageable.number * local[p].pageable.size,
                            local[p].pageable.size)

\* C29: the content of every slice a find returns has at most totalElements
\* items, whatever creates and deletes run between its page query and its
\* count query.
C29_ContentWithinTotal ==
    \A p \in Procs :
        Done(p, "find") /\ result[p].outcome = "ok" =>
            Cardinality(result[p].value.content) <= result[p].value.totalElements

\* The number update reads from an accepted version string.
C30_Range ==
    \A p \in Procs :
        local[p].op = "update" /\ VERSION_PATTERN(local[p].versionStr) =>
            LET version == ParseInt(Slice1(local[p].versionStr)) IN
            version # NaN /\ version.val \in 0..999
\* An update called for a record of version 1000 or more, and what any step
\* does to such a record.
C30_Step ==
    /\ \A p \in Procs :
           /\ pc[p] = "idle" /\ local'[p].op = "update"
           /\ Exists(local'[p].id)
           /\ autos[local'[p].id].version >= 1000
           => /\ pc'[p] = "done"
              /\ result'[p].outcome \in {"VersionInvalid", "VersionOutdated"}
    /\ \A id \in DOMAIN autos :
           autos[id].version >= 1000 => id \in DOMAIN autos' /\ autos'[id] = autos[id]

====
